---- MODULE Spec2Model ----
(***************************************************************************)
(* Model of mkt/submit/forms.py: the submission forms of the marketplace.  *)
(* The listing (add-on) is the persisted record; each form is an object    *)
(* that is bound to submitted data, cleaned, and then saved.               *)
(***************************************************************************)
EXTENDS Integers, Sequences, FiniteSets, TLC

VARIABLES
    status,        \* addon.status
    device_types,  \* addon.device_types, as the set of device-type ids
    features,      \* the AppFeatures instance: the set of features that are on
    versions,      \* addon.versions, as the set of version strings
    app_domain,    \* addon.app_domain (NoValue when the listing has none)
    rereview,      \* RereviewQueue: the append-only sequence of flag entries
    dform,         \* the DeviceTypeForm of the current request
    fform,         \* the AppFeaturesForm of the current request
    vform,         \* the NewWebappVersionForm of the current request
    nform,         \* the NewWebappForm of the current request
    last           \* the last operation run and what it did to the listing

vars == <<status, device_types, features, versions, app_domain, rereview,
          dform, fform, vform, nform, last>>

listing == <<status, device_types, features, versions, app_domain>>

----------------------------------------------------------------------------
(* Bounds *)

MaxQueue == 1      \* re-review entries the queue holds before flagging saves stop
MaxFeature == 3    \* feature flags of AppFeatures that are modelled
MaxVersion == 2    \* distinct version strings
MaxOrigin == 2     \* distinct origins

----------------------------------------------------------------------------
(* Constants of the program *)

\* Python's None / a key missing from a dict / an empty string.
NoValue == 0

Statuses == {"PENDING", "PUBLIC", "APPROVED"}

WEBAPPS_APPROVED_STATUSES == {"PUBLIC", "APPROVED"}

\* The platform part of the tokens, in the order of the get_devices table.
PlatformNames == <<"firefoxos", "desktop", "android-mobile", "android-tablet">>

AllPlatforms == {PlatformNames[i] : i \in 1..Len(PlatformNames)}

\* A UI token 'free-android-mobile' is the pair (kind, platform).
Token(kind, platform) == [kind |-> kind, platform |-> platform]

FREE_PLATFORMS == {Token("free", p) : p \in AllPlatforms}

PAID_PLATFORMS ==
    {Token("paid", p) : p \in {"firefoxos", "android-mobile", "android-tablet"}}

\* t.split('-', 1)[1]
SplitPlatform(t) == t.platform

\* amo.DEVICE_GAIA etc.: the device-type objects, with their id and name.
DEVICE_DESKTOP == [id |-> 1, name |-> "Desktop"]
DEVICE_MOBILE == [id |-> 2, name |-> "Firefox Mobile"]
DEVICE_TABLET == [id |-> 3, name |-> "Firefox Tablet"]
DEVICE_GAIA == [id |-> 4, name |-> "Firefox OS"]

DEVICE_TYPES ==
    [i \in 1..4 |-> CASE i = 1 -> DEVICE_DESKTOP
                      [] i = 2 -> DEVICE_MOBILE
                      [] i = 3 -> DEVICE_TABLET
                      [] i = 4 -> DEVICE_GAIA]

ERRORS == [both |-> "Cannot be free and paid.",
           none |-> "Please select a device.",
           packaged |-> "Packaged apps are not yet supported for those platforms."]

NoErrors == [free_platforms |-> "", paid_platforms |-> "", upload |-> ""]

----------------------------------------------------------------------------
(* mark_for_rereview and RereviewQueue.flag *)

\* Variant of the message that leaves the removed devices out.
DeviceMessageAddedOnly(added_devices, removed_devices) ==
    {<<"Added", DEVICE_TYPES[d].name>> : d \in added_devices}

\* The message lists one 'Added <name>' per added device and one
\* 'Removed <name>' per removed device; it is kept as the set of its items.
DeviceMessage(added_devices, removed_devices) ==
    {<<"Added", DEVICE_TYPES[d].name>> : d \in added_devices}
        \cup {<<"Removed", DEVICE_TYPES[d].name>> : d \in removed_devices}

mark_for_rereview(queue, added_devices, removed_devices) ==
    Append(queue, [reason |-> "REREVIEW_DEVICES_ADDED",
                   head |-> "Device(s) changed",
                   items |-> DeviceMessage(added_devices, removed_devices)])

----------------------------------------------------------------------------
(* DeviceTypeForm *)

UnboundDeviceForm ==
    [state |-> "unbound", free |-> {}, paid |-> {}, errors |-> NoErrors]

\* DeviceTypeForm._add_error
DeviceAddError(errors, msg) ==
    [errors EXCEPT !.free_platforms = ERRORS[msg],
                   !.paid_platforms = ERRORS[msg]]

\* Variant of clean that lacks the "selected one" check.
DeviceCleanErrorsWithoutNone(free, paid, errors) ==
    IF free # {} /\ paid # {} THEN DeviceAddError(errors, "both") ELSE errors

\* DeviceTypeForm.clean, as the errors it leaves on the form.
DeviceCleanErrors(free, paid, errors) ==
    IF free # {} /\ paid # {} THEN DeviceAddError(errors, "both")
    ELSE IF free = {} /\ paid = {} THEN DeviceAddError(errors, "none")
    ELSE errors

\* DeviceTypeForm.get_devices: the platforms table.
PlatformDevice(p) ==
    CASE p = "firefoxos" -> DEVICE_GAIA
      [] p = "desktop" -> DEVICE_DESKTOP
      [] p = "android-mobile" -> DEVICE_MOBILE
      [] p = "android-tablet" -> DEVICE_TABLET

get_devices(source) == {PlatformDevice(p) : p \in source}

\* DeviceTypeForm._get_combined
GetCombined(free, paid) == {SplitPlatform(d) : d \in free \cup paid}

IsValid(errors) == errors = NoErrors

\* A request binds a new form to the submitted platforms and validates it.
DeviceClean(free, paid) ==
    /\ dform' = [state |-> "cleaned", free |-> free, paid |-> paid,
                 errors |-> DeviceCleanErrors(free, paid, NoErrors)]
    /\ last' = [op |-> "device_clean"]
    /\ UNCHANGED <<listing, rereview, fform, vform, nform>>

\* The data save() reads: cleaned_data['paid_platforms' if is_paid else 'free_platforms']
DeviceSaveData(form, is_paid) == IF is_paid THEN form.paid ELSE form.free

DeviceNewTypes(data) == {dev.id : dev \in get_devices({SplitPlatform(t) : t \in data})}

DeviceOldTypes(devs) == {DEVICE_TYPES[x].id : x \in devs}

DeviceAdded(new_types, old_types) == new_types \ old_types

\* Variant of the diff that never removes a device.
DeviceRemovedNever(new_types, old_types) == {}

DeviceRemoved(new_types, old_types) == old_types \ new_types

\* Variant of the condition that does not look at the status.
DeviceNeedsRereviewAnyStatus(added_devices, removed_devices, st) ==
    added_devices # {}

\* if added_devices and addon.status in amo.WEBAPPS_APPROVED_STATUSES
DeviceNeedsRereview(added_devices, removed_devices, st) ==
    added_devices # {} /\ st \in WEBAPPS_APPROVED_STATUSES

\* DeviceTypeForm.save(addon, is_paid), run on a form that passed clean.
DeviceSave(is_paid) ==
    /\ dform.state \in {"cleaned", "saved"}
    /\ IsValid(dform.errors)
    /\ LET data == DeviceSaveData(dform, is_paid)
           new_types == DeviceNewTypes(data)
           old_types == DeviceOldTypes(device_types)
           added_devices == DeviceAdded(new_types, old_types)
           removed_devices == DeviceRemoved(new_types, old_types)
           flagged == DeviceNeedsRereview(added_devices, removed_devices, status)
       IN /\ flagged => Len(rereview) < MaxQueue
          /\ device_types' = (device_types \cup added_devices) \ removed_devices
          /\ rereview' = IF flagged
                            THEN mark_for_rereview(rereview, added_devices,
                                                   removed_devices)
                            ELSE rereview
          /\ last' = [op |-> "device_save", is_paid |-> is_paid, data |-> data,
                      old_types |-> device_types,
                      created |-> added_devices, deleted |-> removed_devices,
                      appended |-> Len(rereview') - Len(rereview),
                      repeat |-> last.op = "device_save" /\ last.data = data]
    /\ dform' = [dform EXCEPT !.state = "saved"]
    /\ UNCHANGED <<status, features, versions, app_domain, fform, vform, nform>>

\* The response is returned (the form re-displayed with its errors, or the
\* listing saved) and the form of the request is gone.
DeviceRequestEnd ==
    /\ dform.state = "saved" \/ (dform.state = "cleaned" /\ ~IsValid(dform.errors))
    /\ dform' = UnboundDeviceForm
    /\ last' = [op |-> "none"]
    /\ UNCHANGED <<listing, rereview, fform, vform, nform>>

----------------------------------------------------------------------------
(* AppFeatures and mark_for_rereview_features_change *)

\* The feature flags of AppFeatures that are modelled, by their position
\* in APP_FEATURES.
Features == 1..MaxFeature

\* APP_FEATURES[...]['name']
FeatureNames == <<"App Management API", "Packaged Apps Install API", "Web Payment",
                  "Web Activities", "Simple Push", "Geolocation">>

FeatureName(k) == IF k <= Len(FeatureNames) THEN FeatureNames[k] ELSE <<"Feature", k>>

\* AppFeatures.to_keys: the keys ('has_apps', ...) of the features that are
\* on, in the order of the underlying dict, which is not the sorted order.
RECURSIVE KeysDescending(_)
KeysDescending(S) ==
    IF S = {} THEN <<>>
    ELSE LET m == CHOOSE x \in S : \A y \in S : y <= x
         IN <<m>> \o KeysDescending(S \ {m})

to_keys(instance) == KeysDescending(instance)

Range(seq) == {seq[i] : i \in 1..Len(seq)}

\* sorted(...)
RECURSIVE sorted(_)
sorted(seq) ==
    IF seq = <<>> THEN <<>>
    ELSE LET m == CHOOSE x \in Range(seq) : \A y \in Range(seq) : x <= y
             i == CHOOSE j \in 1..Len(seq) : seq[j] = m
         IN <<m>> \o sorted(SubSeq(seq, 1, i - 1) \o SubSeq(seq, i + 1, Len(seq)))

\* AppFeatures.to_list: the names of the features that are on.
to_list(instance) == {FeatureName(k) : k \in Range(to_keys(instance))}

\* AppFeatures(**defaultdict.fromkeys(keys, True))
InstanceFromKeys(keys) == Range(keys)

FeatureMessage(added_features, removed_features) ==
    {<<"Added", f>> : f \in added_features}
        \cup {<<"Removed", f>> : f \in removed_features}

mark_for_rereview_features_change(queue, added_features, removed_features) ==
    Append(queue, [reason |-> "REREVIEW_FEATURES_CHANGED",
                   head |-> "Requirements changed",
                   items |-> FeatureMessage(added_features, removed_features)])

----------------------------------------------------------------------------
(* AppFeaturesForm *)

UnboundFeaturesForm ==
    [state |-> "unbound", initial_features |-> <<>>, data |-> {}]

\* AppFeaturesForm.__init__ on the listing's AppFeatures instance, bound to
\* the submitted flags.
FeaturesInit(data) ==
    /\ fform' = [state |-> "bound",
                 initial_features |-> sorted(to_keys(features)),
                 data |-> data]
    /\ last' = [op |-> "features_init"]
    /\ UNCHANGED <<listing, rereview, dform, vform, nform>>

\* AppFeaturesForm._changed_features
ChangedFeaturesAdded(initial_features, instance) ==
    to_list(instance) \ to_list(InstanceFromKeys(initial_features))

\* Variant of the diff that reports no removed feature.
ChangedFeaturesRemovedNever(initial_features, instance) == {}

ChangedFeaturesRemoved(initial_features, instance) ==
    to_list(InstanceFromKeys(initial_features)) \ to_list(instance)

\* Variant of the condition that does not compare with the initial features.
FeaturesNeedsRereviewAlways(mark, st, instance, initial_features) ==
    mark /\ st \in WEBAPPS_APPROVED_STATUSES

\* The condition of AppFeaturesForm.save on the saved instance.
FeaturesNeedsRereview(mark, st, instance, initial_features) ==
    /\ mark
    /\ st \in WEBAPPS_APPROVED_STATUSES
    /\ sorted(to_keys(instance)) # initial_features

\* AppFeaturesForm.save(mark_for_rereview=mark): the ModelForm writes the
\* submitted flags to the instance, then the change is flagged.
FeaturesSave(mark) ==
    /\ fform.state \in {"bound", "saved"}
    /\ LET instance == fform.data
           flagged == FeaturesNeedsRereview(mark, status, instance,
                                            fform.initial_features)
           added_features == ChangedFeaturesAdded(fform.initial_features, instance)
           removed_features == ChangedFeaturesRemoved(fform.initial_features, instance)
       IN /\ flagged => Len(rereview) < MaxQueue
          /\ features' = instance
          /\ rereview' = IF flagged
                            THEN mark_for_rereview_features_change(
                                     rereview, added_features, removed_features)
                            ELSE rereview
          /\ last' = [op |-> "features_save", mark |-> mark,
                      appended |-> Len(rereview') - Len(rereview)]
    /\ fform' = [fform EXCEPT !.state = "saved"]
    /\ UNCHANGED <<status, device_types, versions, app_domain, dform, vform, nform>>

\* The response is returned and the form of the request is gone.
FeaturesRequestEnd ==
    /\ fform.state = "saved"
    /\ fform' = UnboundFeaturesForm
    /\ last' = [op |-> "none"]
    /\ UNCHANGED <<listing, rereview, dform, vform, nform>>

----------------------------------------------------------------------------
(* NewWebappVersionForm *)

VersionStrings == 1..MaxVersion

Origins == 1..MaxOrigin

upload_error == "There was an error with your upload. Please try again."

\* What parse_addon and verify_app_domain, which are not part of the forms,
\* do with the upload of a request:
\*   has_upload    'upload' is in cleaned_data
\*   parse_ok      parse_addon returns a package instead of raising
\*   version       pkg.get('version'), NoValue when there is none
\*   origin        pkg.get('origin'), NoValue when there is none
\*   domain_taken  verify_app_domain raises: another app is on the domain
Uploads ==
    [has_upload : BOOLEAN, parse_ok : BOOLEAN,
     version : VersionStrings \cup {NoValue}, origin : Origins \cup {NoValue},
     domain_taken : BOOLEAN]

\* Variant of the packaged branch that does not look at the versions.
PackagedUploadErrorsNoVersion(up, has_addon, vers, domain) ==
    (IF up.origin # NoValue /\ up.domain_taken
        THEN <<"An app already exists on this domain.">> ELSE <<>>)
    \o (IF up.origin # NoValue /\ has_addon /\ up.origin # domain
           THEN <<"Changes to origin are not allowed.">> ELSE <<>>)

\* The errors the packaged branch collects before displaying them at once.
PackagedUploadErrors(up, has_addon, vers, domain) ==
    (IF up.version # NoValue /\ has_addon /\ up.version \in vers
        THEN <<"Version already exists.">> ELSE <<>>)
    \o (IF up.origin # NoValue /\ up.domain_taken
           THEN <<"An app already exists on this domain.">> ELSE <<>>)
    \o (IF up.origin # NoValue /\ has_addon /\ up.origin # domain
           THEN <<"Changes to origin are not allowed.">> ELSE <<>>)

\* NewWebappVersionForm.clean: the errors of the 'upload' field.
VersionUploadErrors(up, packaged, has_addon, vers, domain) ==
    IF ~up.has_upload THEN <<upload_error>>
    ELSE IF packaged
        THEN IF ~up.parse_ok THEN <<"The package could not be parsed.">>
             ELSE PackagedUploadErrors(up, has_addon, vers, domain)
    ELSE IF up.domain_taken THEN <<"An app already exists on this domain.">>
    ELSE <<>>

\* NewWebappVersionForm.clean returns the data when it set no error, and
\* nothing otherwise.
VersionClean(up, packaged, has_addon) ==
    /\ LET errs == VersionUploadErrors(up, packaged, has_addon, versions, app_domain)
       IN vform' = [state |-> "cleaned", upload |-> up, is_packaged |-> packaged,
                    has_addon |-> has_addon,
                    errors |-> [NoErrors EXCEPT !.upload = errs],
                    returned |-> errs = <<>>]
    /\ last' = [op |-> "version_clean"]
    /\ UNCHANGED <<listing, rereview, dform, fform, nform>>

\* The response is returned and the form of the request is gone.
VersionRequestEnd ==
    /\ vform.state = "cleaned"
    /\ vform' = [state |-> "unbound"]
    /\ last' = [op |-> "none"]
    /\ UNCHANGED <<listing, rereview, dform, fform, nform>>

----------------------------------------------------------------------------
(* NewWebappForm *)

\* Variant of the packaged check that forgets the tablet.
PackagedErrorsNoTablet(devices, android_packaged, desktop_packaged, errors) ==
    LET bad_android == ~android_packaged /\ "android-mobile" \in devices
        bad_desktop == ~desktop_packaged /\ "desktop" \in devices
    IN IF bad_android \/ bad_desktop
          THEN [errors EXCEPT !.free_platforms = ERRORS.packaged,
                              !.paid_platforms = ERRORS.packaged]
          ELSE errors

\* DeviceTypeForm._set_packaged_errors
PackagedErrors(devices, android_packaged, desktop_packaged, errors) ==
    LET bad_android == /\ ~android_packaged
                       /\ ("android-mobile" \in devices \/ "android-tablet" \in devices)
        bad_desktop == ~desktop_packaged /\ "desktop" \in devices
    IN IF bad_android \/ bad_desktop
          THEN [errors EXCEPT !.free_platforms = ERRORS.packaged,
                              !.paid_platforms = ERRORS.packaged]
          ELSE errors

\* NewWebappForm.is_packaged
NewWebappIsPackaged(is_packaged_kw, packaged_field) == is_packaged_kw \/ packaged_field

\* NewWebappVersionForm.__init__ drops the paid_platforms field unless the
\* 'allow-b2g-paid-submission' flag is active; cleaned_data then has no paid
\* platforms.
CleanedPaid(paid, b2g_paid) == IF b2g_paid THEN paid ELSE {}

\* NewWebappForm.clean: DeviceTypeForm.clean, which hands over to
\* NewWebappVersionForm.clean when the platforms are fine, then the
\* packaged-capability check.  The result is the errors and whether the data
\* was returned.
NewWebappCleanResult(free, paid, up, packaged, flags) ==
    LET platform_errors == DeviceCleanErrors(free, paid, NoErrors)
        upload_errors == IF IsValid(platform_errors)
                            THEN VersionUploadErrors(up, packaged, FALSE, {}, NoValue)
                            ELSE <<>>
        super_errors == [platform_errors EXCEPT !.upload = upload_errors]
        \* both/none return the data with the error set; the version form
        \* returns nothing once it set an error
        super_data == upload_errors = <<>>
        packaged_errors == PackagedErrors(GetCombined(free, paid),
                                          flags.android_packaged,
                                          flags.desktop_packaged, super_errors)
    IN IF ~super_data THEN [errors |-> super_errors, returned |-> FALSE]
       ELSE IF packaged
          THEN [errors |-> packaged_errors,
                returned |-> packaged_errors.free_platforms = ""]
       ELSE [errors |-> super_errors, returned |-> TRUE]

WaffleFlags ==
    [android_packaged : BOOLEAN, desktop_packaged : BOOLEAN, b2g_paid : BOOLEAN]

\* A submission of the "new app" flow: no listing exists yet.
NewWebappClean(free, paid_submitted, up, is_packaged_kw, packaged_field, flags) ==
    /\ LET paid == CleanedPaid(paid_submitted, flags.b2g_paid)
           packaged == NewWebappIsPackaged(is_packaged_kw, packaged_field)
           res == NewWebappCleanResult(free, paid, up, packaged, flags)
       IN nform' = [state |-> "cleaned", free |-> free, paid |-> paid, upload |-> up,
                    is_packaged_kw |-> is_packaged_kw, packaged |-> packaged_field,
                    flags |-> flags, errors |-> res.errors, returned |-> res.returned]
    /\ last' = [op |-> "newwebapp_clean"]
    /\ UNCHANGED <<listing, rereview, dform, fform, vform>>

\* The response is returned and the form of the request is gone.
NewWebappRequestEnd ==
    /\ nform.state = "cleaned"
    /\ nform' = [state |-> "unbound"]
    /\ last' = [op |-> "none"]
    /\ UNCHANGED <<listing, rereview, dform, fform, vform>>

----------------------------------------------------------------------------
(* Specifications *)

\* Requests are served one at a time, each with a form of its own: a form is
\* constructed when the form of the previous request is gone.

InitForms ==
    /\ dform = UnboundDeviceForm
    /\ fform = UnboundFeaturesForm
    /\ vform = [state |-> "unbound"]
    /\ nform = [state |-> "unbound"]
    /\ last = [op |-> "none"]

DeviceTypeIds == DOMAIN DEVICE_TYPES

\* A listing in any status and with the given device types; it has no
\* version, no origin and no feature yet, and nothing is queued.
InitListing(devs) ==
    /\ status \in Statuses
    /\ device_types \in devs
    /\ features = {}
    /\ versions = {}
    /\ app_domain = NoValue
    /\ rereview = <<>>

Init == InitListing(SUBSET DeviceTypeIds) /\ InitForms

DeviceCleanStep ==
    /\ dform.state = "unbound"
    /\ \E free \in SUBSET FREE_PLATFORMS, paid \in SUBSET PAID_PLATFORMS :
        DeviceClean(free, paid)

DeviceSaveStep == \E is_paid \in BOOLEAN : DeviceSave(is_paid)

FeaturesInitStep ==
    /\ fform.state = "unbound"
    /\ \E data \in SUBSET Features : FeaturesInit(data)

FeaturesSaveStep == \E mark \in BOOLEAN : FeaturesSave(mark)

VersionCleanStep ==
    /\ vform.state = "unbound"
    /\ \E up \in Uploads, packaged \in BOOLEAN, has_addon \in BOOLEAN :
        VersionClean(up, packaged, has_addon)

NewWebappCleanStep ==
    /\ nform.state = "unbound"
    /\ \E free \in SUBSET FREE_PLATFORMS, paid \in SUBSET PAID_PLATFORMS,
       up \in Uploads, is_packaged_kw \in BOOLEAN, packaged_field \in BOOLEAN,
       flags \in WaffleFlags :
        NewWebappClean(free, paid, up, is_packaged_kw, packaged_field, flags)

\* The platform/device selector on a listing.
Next == DeviceCleanStep \/ DeviceSaveStep \/ DeviceRequestEnd

Spec == Init /\ [][Next]_vars

\* The feature-set form on a listing.
NextFeatures == FeaturesInitStep \/ FeaturesSaveStep \/ FeaturesRequestEnd

InitFeatures == InitListing({{}}) /\ InitForms

SpecFeatures == InitFeatures /\ [][NextFeatures]_vars

\* Both saving forms on a listing that is not in an approved status.
InitUnapproved == Init /\ status \notin WEBAPPS_APPROVED_STATUSES

NextListing == Next \/ NextFeatures

SpecUnapproved == InitUnapproved /\ [][NextListing]_vars

\* The upload validator on an existing listing with any version history and
\* any stored origin.
InitVersion ==
    /\ status \in Statuses
    /\ device_types = {}
    /\ features = {}
    /\ versions \in SUBSET VersionStrings
    /\ app_domain \in Origins \cup {NoValue}
    /\ rereview = <<>>
    /\ InitForms

NextVersion == VersionCleanStep \/ VersionRequestEnd

SpecVersion == InitVersion /\ [][NextVersion]_vars

\* The composite form of the "new app" flow.
NextNewWebapp == NewWebappCleanStep \/ NewWebappRequestEnd

InitNewWebapp == InitListing({{}}) /\ InitForms /\ status = "PENDING"

SpecNewWebapp == InitNewWebapp /\ [][NextNewWebapp]_vars

----------------------------------------------------------------------------
(* Properties *)

Approved == status \in WEBAPPS_APPROVED_STATUSES

LastEntry == rereview[Len(rereview)]

DeviceItems(added, removed) ==
    {<<"Added", DEVICE_TYPES[d].name>> : d \in added}
        \cup {<<"Removed", DEVICE_TYPES[d].name>> : d \in removed}

FeatureItems(added, removed) ==
    {<<"Added", FeatureName(f)>> : f \in added}
        \cup {<<"Removed", FeatureName(f)>> : f \in removed}

\* C1: DeviceTypeForm.clean sets the 'both' error on both platform fields
\* when free and paid platforms are both selected, the 'none' error on both
\* fields when neither is, and neither error when exactly one is selected.
C1_CleanRejectsBothAndNone ==
    dform.state # "unbound" =>
        LET both == dform.free # {} /\ dform.paid # {}
            none == dform.free = {} /\ dform.paid = {}
        IN /\ both => /\ dform.errors.free_platforms = ERRORS.both
                      /\ dform.errors.paid_platforms = ERRORS.both
           /\ none => /\ dform.errors.free_platforms = ERRORS.none
                      /\ dform.errors.paid_platforms = ERRORS.none
           /\ (~both /\ ~none) =>
                  /\ dform.errors.free_platforms \notin {ERRORS.both, ERRORS.none}
                  /\ dform.errors.paid_platforms \notin {ERRORS.both, ERRORS.none}

C1_Witness ==
    /\ dform.state = "cleaned"
    /\ dform.free = {} /\ dform.paid = {}
    /\ dform.errors.free_platforms = ERRORS.none

\* C2, as claimed: on an approved listing every save whose submitted device
\* set differs from the current one (devices added, removed, or both)
\* appends exactly one entry naming the added and the removed devices.
\* Stated for the saves that read a non-empty selection, where is_paid
\* agrees with the platforms the form was cleaned with.
C2_AnyChangeFlagsRereview ==
    (/\ last.op = "device_save"
     /\ Approved
     /\ last.data # {}
     /\ DeviceNewTypes(last.data) # last.old_types) =>
        /\ last.appended = 1
        /\ LastEntry.items = DeviceItems(DeviceNewTypes(last.data) \ last.old_types,
                                         last.old_types \ DeviceNewTypes(last.data))

\* C2, amended: on an approved listing every save that adds at least one
\* device appends exactly one entry, which names exactly the added and the
\* removed devices; a save that adds no device appends none.
C2_AddedDevicesFlagRereview ==
    (last.op = "device_save" /\ Approved) =>
        IF DeviceNewTypes(last.data) \ last.old_types # {}
           THEN /\ last.appended = 1
                /\ LastEntry.reason = "REREVIEW_DEVICES_ADDED"
                /\ LastEntry.items =
                       DeviceItems(DeviceNewTypes(last.data) \ last.old_types,
                                   last.old_types \ DeviceNewTypes(last.data))
           ELSE last.appended = 0

C2_Witness ==
    /\ last.op = "device_save"
    /\ Approved
    /\ last.created # {} /\ last.deleted # {}
    /\ last.appended = 1

\* C3: on an approved listing, saving a feature set equal to the one the
\* form was initialised with appends no re-review entry, also when the
\* listing was saved before.
C3_UnchangedFeaturesNoRereview ==
    (/\ last.op = "features_save"
     /\ Approved
     /\ fform.data = Range(fform.initial_features)) => last.appended = 0

C3_Witness ==
    /\ last.op = "features_save"
    /\ Approved
    /\ last.mark
    /\ fform.data # {}
    /\ fform.data = Range(fform.initial_features)
    /\ last.appended = 0

\* C4: a packaged upload on an existing listing whose parsed version string
\* is among the listing's versions is rejected: clean sets an 'upload' error
\* and returns no data.
C4_DuplicateVersionRejected ==
    (/\ vform.state = "cleaned"
     /\ vform.is_packaged
     /\ vform.has_addon
     /\ vform.upload.version \in versions) =>
        /\ ~vform.returned
        /\ vform.errors.upload # <<>>
        /\ (vform.upload.has_upload /\ vform.upload.parse_ok) =>
               "Version already exists." \in Range(vform.errors.upload)

C4_Witness ==
    /\ vform.state = "cleaned"
    /\ vform.is_packaged /\ vform.has_addon
    /\ vform.upload.has_upload /\ vform.upload.parse_ok
    /\ vform.upload.version \in versions
    /\ vform.upload.origin = app_domain
    /\ ~vform.upload.domain_taken
    /\ vform.errors.upload = <<"Version already exists.">>

\* C5: every packaged upload on an existing listing whose manifest origin
\* differs from the listing's stored origin is rejected.
C5_ChangedOriginRejected ==
    (/\ vform.state = "cleaned"
     /\ vform.is_packaged
     /\ vform.has_addon
     /\ vform.upload.has_upload /\ vform.upload.parse_ok
     /\ vform.upload.origin # app_domain) =>
        /\ ~vform.returned
        /\ vform.errors.upload # <<>>

\* C6: after a save of a form that passed clean, whatever is_paid was given,
\* the listing has at least one device type and its device types come from
\* one of the two selections only.
C6_SavedListingHasDevices ==
    last.op = "device_save" =>
        /\ device_types # {}
        /\ \/ device_types = DeviceNewTypes(dform.free)
           \/ device_types = DeviceNewTypes(dform.paid)

\* The packaging-capability mismatch of a cleaned NewWebappForm.
PackagedMismatch ==
    LET devices == {t.platform : t \in nform.free \cup nform.paid}
    IN \/ /\ ~nform.flags.android_packaged
          /\ devices \cap {"android-mobile", "android-tablet"} # {}
       \/ /\ ~nform.flags.desktop_packaged
          /\ "desktop" \in devices

SubmittedPackaged == nform.is_packaged_kw \/ nform.packaged

HasPackagedError ==
    /\ nform.errors.free_platforms = ERRORS.packaged
    /\ nform.errors.paid_platforms = ERRORS.packaged

\* C7, as claimed: a packaged submission with a packaging-capability mismatch
\* gets the 'packaged' error on the platform fields; a hosted submission or
\* one without mismatch does not get it.
C7_PackagedMismatchError ==
    nform.state = "cleaned" =>
        /\ (SubmittedPackaged /\ PackagedMismatch) => HasPackagedError
        /\ ~(SubmittedPackaged /\ PackagedMismatch) =>
               /\ nform.errors.free_platforms # ERRORS.packaged
               /\ nform.errors.paid_platforms # ERRORS.packaged

\* C7, amended: a packaged submission with a packaging-capability mismatch is
\* always rejected, and with the 'packaged' error on the platform fields
\* unless the validation of the upload failed first; a hosted submission or
\* one without mismatch does not get that error.
C7_PackagedMismatchRejected ==
    nform.state = "cleaned" =>
        /\ (SubmittedPackaged /\ PackagedMismatch) =>
               /\ ~nform.returned
               /\ ~IsValid(nform.errors)
               /\ (nform.errors.upload = <<>>) => HasPackagedError
               /\ (nform.errors.upload # <<>>) =>
                      /\ nform.errors.free_platforms = ""
                      /\ nform.errors.paid_platforms = ""
        /\ ~(SubmittedPackaged /\ PackagedMismatch) =>
               /\ nform.errors.free_platforms # ERRORS.packaged
               /\ nform.errors.paid_platforms # ERRORS.packaged

C7_Witness ==
    /\ nform.state = "cleaned"
    /\ nform.packaged /\ ~nform.is_packaged_kw
    /\ nform.free = {Token("free", "android-tablet")}
    /\ nform.paid = {}
    /\ ~nform.flags.android_packaged /\ nform.flags.desktop_packaged
    /\ nform.upload.has_upload /\ nform.upload.parse_ok
    /\ HasPackagedError
    /\ ~nform.returned

\* C8: on a listing that is not in an approved status neither
\* DeviceTypeForm.save nor AppFeaturesForm.save appends a re-review entry,
\* whatever devices or features changed.
C8_NoRereviewUnlessApproved ==
    ~Approved =>
        /\ rereview = <<>>
        /\ last.op \in {"device_save", "features_save"} => last.appended = 0

C8_Witness ==
    /\ ~Approved
    /\ last.op = "device_save"
    /\ last.created # {}
    /\ features # {}
    /\ rereview = <<>>

\* C9: on an approved listing, saving a feature set different from the
\* initial one appends exactly one entry whose added features are the new
\* minus the old and whose removed features are the old minus the new; with
\* mark_for_rereview=False nothing is appended.
C9_ChangedFeaturesFlagRereview ==
    (/\ last.op = "features_save"
     /\ Approved
     /\ fform.data # Range(fform.initial_features)) =>
        IF last.mark
           THEN /\ last.appended = 1
                /\ LastEntry.reason = "REREVIEW_FEATURES_CHANGED"
                /\ LastEntry.items =
                       FeatureItems(fform.data \ Range(fform.initial_features),
                                    Range(fform.initial_features) \ fform.data)
           ELSE last.appended = 0

C9_Witness ==
    /\ last.op = "features_save"
    /\ Approved
    /\ last.mark
    /\ fform.data \ Range(fform.initial_features) # {}
    /\ Range(fform.initial_features) \ fform.data # {}
    /\ last.appended = 1

\* C10: after DeviceTypeForm.save the listing's device types are exactly the
\* device types of the submitted tokens, the added ones created and the
\* removed ones deleted; a second save with the same data creates nothing,
\* deletes nothing and appends nothing.
C10_SaveSetsExactlySubmitted ==
    last.op = "device_save" =>
        /\ device_types = DeviceNewTypes(last.data)
        /\ last.created = DeviceNewTypes(last.data) \ last.old_types
        /\ last.deleted = last.old_types \ DeviceNewTypes(last.data)
        /\ last.repeat =>
               /\ last.created = {} /\ last.deleted = {}
               /\ last.appended = 0
               /\ device_types = last.old_types

C10_Witness ==
    /\ last.op = "device_save"
    /\ last.repeat
    /\ Approved
    /\ Cardinality(device_types) >= 2
    /\ Len(rereview) = 1
    /\ last.appended = 0

====
